---- MODULE Spec2Model ----
(***************************************************************************)
(* A model of starmanager.go: the StarManager that mirrors a GitHub        *)
(* account's starred repositories into a local storm database.             *)
(*                                                                         *)
(* Goroutines are modelled as tasks with a program position; every         *)
(* blocking call (gateway call, store call, channel operation, WaitGroup   *)
(* operation) is a step of its own, so that every interleaving the Go      *)
(* scheduler allows is a behaviour of the model.                           *)
(***************************************************************************)
EXTENDS Integers, Sequences, FiniteSets, TLC

VARIABLES
    store,              \* s.DB as seen through the open handle: a set of Star, unique by URL
    linked,             \* TRUE iff the cache file path still names the open database file
    remote,             \* indexes of the repositories starred on GitHub
    mainpc,             \* position of the calling goroutine
    op,                 \* exported method the caller is in ("" when none)
    ret,                \* the last return of an exported method (and what was pending then)
    wg,                 \* counter of the sync.WaitGroup of the running call
    responses,          \* SaveAllStars: chan *github.Response, capacity 1
    firstPageResponse,  \* SaveAllStars: the response received from page 1
    pageTask,           \* SaveStarredPage goroutine of each page: its position
    repoTask,           \* SaveStarredRepository goroutine of each repository: its position
    age,                \* Cleanup: argument age
    archived,           \* Cleanup: argument archived
    allStars,           \* Cleanup: the stars read by s.DB.All
    closed,             \* Cleanup: TRUE iff the channel toDelete has been closed
    queueTask,          \* Cleanup: the goroutine sending each selected star on toDelete
    removeTask,         \* Cleanup: the RemoveStar goroutine of each received star
    closer,             \* Cleanup: the goroutine running wg.Wait(); close(toDelete)
    unstarCalls,        \* number of Unstar calls issued per repository by the running call
    unstarOk,           \* URLs for which an Unstar call has returned success
    deleteCalls,        \* number of DeleteStruct calls issued per repository by the running call
    deleted,            \* URLs of the records DeleteStruct has removed from the store
    query,              \* GetProjects: its arguments
    out                 \* GetProjects, GetTopics: the slice returned

storeVars == <<store, linked, remote>>
syncVars == <<responses, firstPageResponse, pageTask, repoTask>>
argVars == <<age, archived, allStars>>
cleanVars == <<closed, queueTask, removeTask>>
histVars == <<unstarCalls, unstarOk, deleteCalls, deleted>>
queryVars == <<query, out>>

vars == <<store, linked, remote, mainpc, op, ret, wg, responses, firstPageResponse,
          pageTask, repoTask, age, archived, allStars, closed, queueTask, removeTask,
          closer, unstarCalls, unstarOk, deleteCalls, deleted, query, out>>

-----------------------------------------------------------------------------
(* Bounds                                                                  *)

\* number of repositories the remote account can hold
MaxRepos == 3

\* ListOptions.PerPage: the source asks for PageSize (100) per page; the model
\* pages the remote collection in smaller pages
PerPage == 2

\* number of records in the cache the queries are run on
MaxStars == 3

\* largest count GetProjects is asked for
MaxCount == 3

-----------------------------------------------------------------------------
(* Data                                                                    *)

Nil == "nil"

RepoIds == 1..MaxRepos

\* the variable firstPageResponse before a response has been received
NoResponse == [LastPage |-> -1]

\* time in months; time.Now()
Now == 12 * 50

\* strings.ToLower on the language names of the catalogue
ToLower(s) ==
    CASE s = "Go" -> "go"
      [] s = "Rust" -> "rust"
      [] OTHER -> s

\* *repo.HTMLURL of repository i: https://github.com/o/<i>
HTMLURL(i) == [host |-> "github.com", path |-> <<"o", i>>]

\* the github.Repository the gateway returns for repository i
Repository(i) ==
    [HTMLURL |-> HTMLURL(i),
     Language |-> IF i % 3 = 1 THEN "Go" ELSE IF i % 3 = 2 THEN "Rust" ELSE Nil,
     PushedAt |-> IF i % 2 = 0 THEN Now - 13 ELSE Now - 1,
     StargazersCount |-> (i * 2) % 3,
     Archived |-> ((i - 1) \div 2) % 2 = 1,
     Topics |-> IF i % 2 = 1 THEN <<"a", "b">> ELSE IF i % 4 = 2 THEN <<"a">> ELSE <<>>]

\* the Star that SaveStarredRepository builds from a repository
NewStar(repo) ==
    [PushedAt |-> repo.PushedAt,
     URL |-> repo.HTMLURL,
     Language |-> ToLower(IF repo.Language # Nil THEN repo.Language ELSE ""),
     Stargazers |-> repo.StargazersCount,
     Topics |-> repo.Topics,
     Archived |-> repo.Archived]

StarOf(i) == NewStar(Repository(i))

\* DBSave as a plain insert
DBSave_Insert(db, star) == db \cup {star}

\* s.DB.Save: insert or overwrite by the unique id URL
DBSave(db, star) == {s \in db : s.URL # star.URL} \cup {star}

\* s.DB.Count
DBCount(db) == Cardinality(db)

URLs(db) == {s.URL : s \in db}

-----------------------------------------------------------------------------
(* The remote collection, paged                                            *)

Min(a, b) == IF a < b THEN a ELSE b

\* number of remote repositories with an index below i
Rank(i) == Cardinality({j \in remote : j < i})

\* number of pages of the remote collection
NumPages == (Cardinality(remote) + PerPage - 1) \div PerPage

\* the repositories ListStarred returns for page p
PageItems(p) == {i \in remote : Rank(i) \div PerPage = p - 1}

\* response.LastPage: parsed from the Link header, 0 when there is no rel="last"
\* link, that is on the last page
LastPage(p) == IF p < NumPages THEN NumPages ELSE 0

PageIds == 1..((MaxRepos + PerPage - 1) \div PerPage)

\* a Star URL that url.Parse rejects (invalid host escape)
BadURL == [host |-> "%", path |-> <<>>]

\* url.Parse(star.URL): TRUE iff it returns an error
UrlParseErr(u) == u.host = "%"

\* strings.Split(starURL.Path, "/"): the path "/o/r" splits into "", "o", "r"
SplitPath(u) == <<"">> \o u.path

\* the repositories the gateway's Unstar(owner, repo) removes from the account
Unstarred(owner, repo) == {j \in RepoIds : HTMLURL(j).path = <<owner, repo>>}

\* s.DB.DeleteStruct: removes the record with the star's id
DBDelete(db, star) == {s \in db : s.URL # star.URL}

\* time.Now().AddDate(0, -age, 0)
Then(a) == Now - a

\* PushedAt.Before(then)
Before(t, u) == t < u

\* Selected with the two clauses joined by "and"
Selected_And(star, a, ar) == Before(star.PushedAt, Then(a)) /\ star.Archived = ar

\* the condition under which Cleanup queues a star for deletion
Selected(star, a, ar) == Before(star.PushedAt, Then(a)) \/ star.Archived = ar

\* the arguments Cleanup is called with
Ages == {12, 24}

-----------------------------------------------------------------------------
(* Task positions                                                          *)

\* a goroutine that will take no further step
Finished(pc) == pc \in {"none", "done", "failed", "blocked"}

Quiescent ==
    /\ \A p \in PageIds : Finished(pageTask[p])
    /\ \A i \in RepoIds : Finished(repoTask[i])
    /\ \A i \in RepoIds : Finished(queueTask[i])
    /\ \A i \in RepoIds : Finished(removeTask[i])
    /\ Finished(closer)

\* the process has not crashed
Alive == mainpc # "panic"

\* goroutines that were started and have not returned
PendingPages == {p \in PageIds : pageTask[p] \notin {"none", "done"}}
PendingRepos == {i \in RepoIds : repoTask[i] \notin {"none", "done", "failed"}}
PendingQueues == {i \in RepoIds : queueTask[i] \notin {"none", "done"}}
PendingRemoves == {i \in RepoIds : removeTask[i] \notin {"none", "done", "failed"}}

NoPageTasks == [p \in PageIds |-> "none"]
NoRepoTasks == [i \in RepoIds |-> "none"]
NoCalls == [i \in RepoIds |-> 0]

\* number of goroutines that have ended in a failure: a page fetch that failed, a
\* save or a removal that returned an error
Failures ==
    Cardinality({p \in PageIds : pageTask[p] = "blocked"})
      + Cardinality({i \in RepoIds : repoTask[i] = "failed"})
      + Cardinality({i \in RepoIds : removeTask[i] = "failed"})

\* what an exported method returns, with the goroutines still pending and the
\* failures that had occurred at that moment
Return(o, ok, err) ==
    [op |-> o, ok |-> ok, err |-> err, pages |-> PendingPages, repos |-> PendingRepos,
     queues |-> PendingQueues, removes |-> PendingRemoves, count |-> DBCount(store),
     failures |-> Failures]

NoReturn ==
    [op |-> "", ok |-> TRUE, err |-> Nil, pages |-> {}, repos |-> {}, queues |-> {},
     removes |-> {}, count |-> 0, failures |-> 0]

NoQuery == [count |-> 0, language |-> "", topic |-> "", random |-> FALSE]

\* the state of a StarManager on which no method is running
Idle ==
    /\ mainpc = "idle"
    /\ op = ""
    /\ ret = NoReturn
    /\ wg = 0
    /\ responses = <<>>
    /\ firstPageResponse = NoResponse
    /\ pageTask = NoPageTasks
    /\ repoTask = NoRepoTasks
    /\ age = 0
    /\ archived = FALSE
    /\ allStars = {}
    /\ closed = FALSE
    /\ queueTask = NoRepoTasks
    /\ removeTask = NoRepoTasks
    /\ closer = "none"
    /\ unstarCalls = NoCalls
    /\ unstarOk = {}
    /\ deleteCalls = NoCalls
    /\ deleted = {}
    /\ query = NoQuery
    /\ out = <<>>

\* New() on an account of up to MaxRepos starred repositories and no cache file
Init ==
    /\ store = {}
    /\ linked = TRUE
    /\ remote \in {1..n : n \in 0..MaxRepos}
    /\ Idle

-----------------------------------------------------------------------------
(* sync.WaitGroup                                                          *)

\* a goroutine parked in wg.Wait() is released when the counter reaches zero
Wake(pc) ==
    CASE pc = "sas_parked" -> "sas_woken"
      [] pc = "cl_parked" -> "cl_woken"
      [] pc = "parked" -> "woken"
      [] OTHER -> pc

\* wg.Done(): decrements the counter and, at zero, releases the waiters
WgDone ==
    /\ wg' = wg - 1
    /\ mainpc' = IF wg = 1 THEN Wake(mainpc) ELSE mainpc
    /\ closer' = IF wg = 1 THEN Wake(closer) ELSE closer

\* the process crashes with a panic
Panic(msg) ==
    /\ mainpc' = "panic"
    /\ ret' = Return(op, FALSE, msg)

-----------------------------------------------------------------------------
(* SaveStarredRepository (a goroutine per repository of a page)            *)

\* wg.Add(1)
SaveStarredRepository_Add(i) ==
    /\ Alive
    /\ repoTask[i] = "spawned"
    /\ repoTask' = [repoTask EXCEPT ![i] = "running"]
    /\ wg' = wg + 1
    /\ UNCHANGED <<queryVars, storeVars, mainpc, op, ret, responses, firstPageResponse, pageTask,
                   argVars, cleanVars, closer, histVars>>

\* s.DB.Save(&Star{...}); return err or nil; deferred wg.Done()
SaveStarredRepository_Save(i) ==
    /\ Alive
    /\ repoTask[i] = "running"
    /\ \E saveErr \in BOOLEAN :
          IF saveErr
          THEN /\ repoTask' = [repoTask EXCEPT ![i] = "failed"]
               /\ store' = store
          ELSE /\ repoTask' = [repoTask EXCEPT ![i] = "done"]
               /\ store' = DBSave(store, StarOf(i))
    /\ WgDone
    /\ UNCHANGED <<queryVars, linked, remote, op, ret, responses, firstPageResponse, pageTask,
                   argVars, cleanVars, histVars>>

-----------------------------------------------------------------------------
(* SaveStarredPage (a goroutine per page)                                  *)

\* wg.Add(1)
SaveStarredPage_Add(p) ==
    /\ Alive
    /\ pageTask[p] = "spawned"
    /\ pageTask' = [pageTask EXCEPT ![p] = "added"]
    /\ wg' = wg + 1
    /\ UNCHANGED <<queryVars, storeVars, mainpc, op, ret, responses, firstPageResponse, repoTask,
                   argVars, cleanVars, closer, histVars>>

\* errors := make(chan error); s.Client.Activity.ListStarred(...).
\* On an error the goroutine sends on the unbuffered channel errors, which it
\* alone holds until it returns: no receiver exists, the send never completes.
SaveStarredPage_List(p) ==
    /\ Alive
    /\ pageTask[p] = "added"
    /\ \E listErr \in BOOLEAN :
          pageTask' = [pageTask EXCEPT ![p] = IF listErr THEN "blocked" ELSE "listed"]
    /\ UNCHANGED <<queryVars, storeVars, mainpc, op, ret, wg, responses, firstPageResponse,
                   repoTask, argVars, cleanVars, closer, histVars>>

\* if responses != nil { responses <- response }: only page 1 is given the channel
SaveStarredPage_Respond(p) ==
    /\ Alive
    /\ pageTask[p] = "listed"
    /\ IF p = 1
       THEN /\ Len(responses) < 1
            /\ responses' = Append(responses, [LastPage |-> LastPage(p)])
       ELSE responses' = responses
    /\ pageTask' = [pageTask EXCEPT ![p] = "responded"]
    /\ UNCHANGED <<queryVars, storeVars, mainpc, op, ret, wg, firstPageResponse, repoTask,
                   argVars, cleanVars, closer, histVars>>

\* for _, r := range firstPage { go s.SaveStarredRepository(r.Repository, wg) }
SaveStarredPage_Spawn(p) ==
    /\ Alive
    /\ pageTask[p] = "responded"
    /\ repoTask' = [i \in RepoIds |-> IF i \in PageItems(p) THEN "spawned" ELSE repoTask[i]]
    /\ pageTask' = [pageTask EXCEPT ![p] = "spawnedAll"]
    /\ UNCHANGED <<queryVars, storeVars, mainpc, op, ret, wg, responses, firstPageResponse,
                   argVars, cleanVars, closer, histVars>>

\* return errors; deferred wg.Done()
SaveStarredPage_Done(p) ==
    /\ Alive
    /\ pageTask[p] = "spawnedAll"
    /\ pageTask' = [pageTask EXCEPT ![p] = "done"]
    /\ WgDone
    /\ UNCHANGED <<queryVars, storeVars, op, ret, responses, firstPageResponse, repoTask,
                   argVars, cleanVars, histVars>>

-----------------------------------------------------------------------------
(* SaveAllStars                                                            *)

\* an exported method is entered: the positions below are those of its goroutines
\* (the goroutines of earlier calls have returned or are blocked for ever)
Enter ==
    /\ mainpc = "idle"
    /\ Quiescent
    /\ wg' = 0
    /\ responses' = <<>>
    /\ firstPageResponse' = NoResponse
    /\ repoTask' = NoRepoTasks
    /\ closed' = FALSE
    /\ removeTask' = NoRepoTasks

\* no gateway or store call has been issued by the method entered
NoHistory ==
    /\ unstarCalls' = NoCalls
    /\ unstarOk' = {}
    /\ deleteCalls' = NoCalls
    /\ deleted' = {}

\* wg := sync.WaitGroup{}; responses := make(chan *github.Response, 1);
\* go s.SaveStarredPage(1, responses, &wg)
SaveAllStars_Start(o) ==
    /\ op' = o
    /\ pageTask' = [p \in PageIds |-> IF p = 1 THEN "spawned" ELSE "none"]
    /\ mainpc' = "sas_recv"
    /\ ret' = NoReturn
    /\ queueTask' = NoRepoTasks
    /\ NoHistory
    /\ UNCHANGED <<queryVars, storeVars, argVars, closer>>

SaveAllStars ==
    /\ Enter
    /\ SaveAllStars_Start("SaveAllStars")

\* firstPageResponse := <-responses
SaveAllStars_Recv ==
    /\ mainpc = "sas_recv"
    /\ Len(responses) > 0
    /\ firstPageResponse' = Head(responses)
    /\ responses' = Tail(responses)
    /\ mainpc' = "sas_dispatch"
    /\ UNCHANGED <<queryVars, storeVars, op, ret, wg, pageTask, repoTask, argVars, cleanVars,
                   closer, histVars>>

\* SaveAllStars_Dispatch starting every later page, whatever the response says
SaveAllStars_Dispatch_All ==
    /\ mainpc = "sas_dispatch"
    /\ pageTask' = [p \in PageIds |-> IF 2 <= p THEN "spawned" ELSE pageTask[p]]
    /\ mainpc' = "sas_wait"
    /\ UNCHANGED <<queryVars, storeVars, op, ret, wg, responses, firstPageResponse, repoTask,
                   argVars, cleanVars, closer, histVars>>

\* for i := 2; i <= firstPageResponse.LastPage; i++ { go s.SaveStarredPage(i, nil, &wg) }
SaveAllStars_Dispatch ==
    /\ mainpc = "sas_dispatch"
    /\ pageTask' = [p \in PageIds |->
                      IF 2 <= p /\ p <= firstPageResponse.LastPage
                      THEN "spawned" ELSE pageTask[p]]
    /\ mainpc' = "sas_wait"
    /\ UNCHANGED <<queryVars, storeVars, op, ret, wg, responses, firstPageResponse, repoTask,
                   argVars, cleanVars, closer, histVars>>

\* SaveAllStars_Return reporting the failures that have occurred
SaveAllStars_Return_Failures ==
    /\ ret' = Return(op, Failures = 0, IF Failures = 0 THEN Nil ELSE "SaveError")
    /\ mainpc' = "idle"
    /\ op' = ""

\* return true, nil  (SaveIfEmpty then returns nil)
SaveAllStars_Return ==
    /\ ret' = Return(op, TRUE, Nil)
    /\ mainpc' = "idle"
    /\ op' = ""

\* wg.Wait(): returns at once when the counter is zero, parks the caller otherwise
SaveAllStars_Wait ==
    /\ mainpc = "sas_wait"
    /\ IF wg = 0
       THEN SaveAllStars_Return
       ELSE /\ mainpc' = "sas_parked"
            /\ UNCHANGED <<queryVars, op, ret>>
    /\ UNCHANGED <<queryVars, storeVars, wg, syncVars, argVars, cleanVars, closer, histVars>>

\* the released waiter finds the WaitGroup in use again and panics ("WaitGroup is
\* reused before previous Wait has returned"), or returns from Wait
SaveAllStars_Woken ==
    /\ mainpc = "sas_woken"
    /\ IF wg # 0
       THEN /\ Panic("WaitGroup is reused")
            /\ op' = op
       ELSE SaveAllStars_Return
    /\ UNCHANGED <<queryVars, storeVars, wg, syncVars, argVars, cleanVars, closer, histVars>>

-----------------------------------------------------------------------------
(* SaveIfEmpty, ClearCache, New                                            *)

\* what a method that starts no goroutine returns
Result(o, ok, err) == [NoReturn EXCEPT !.op = o, !.ok = ok, !.err = err, !.count = DBCount(store)]

\* SaveIfEmpty without the test of the count
SaveIfEmpty_Always ==
    /\ Enter
    /\ SaveAllStars_Start("SaveIfEmpty")

\* if count, _ := s.DB.Count(&Star{}); count == 0 { s.SaveAllStars() }; return nil
\* (the source discards the error of Count; Count is taken not to fail)
SaveIfEmpty ==
    /\ Enter
    /\ IF DBCount(store) = 0
       THEN SaveAllStars_Start("SaveIfEmpty")
       ELSE /\ op' = ""
            /\ pageTask' = NoPageTasks
            /\ queueTask' = NoRepoTasks
            /\ NoHistory
            /\ mainpc' = "idle"
            /\ ret' = Result("SaveIfEmpty", TRUE, Nil)
            /\ UNCHANGED <<queryVars, storeVars, argVars, closer>>

\* os.Remove(s.DB.Bolt.Path()): unlinks the path; the open handle s.DB keeps the
\* file it opened, so what s.DB reads and writes is unchanged
ClearCache ==
    /\ Enter
    /\ op' = ""
    /\ pageTask' = NoPageTasks
    /\ queueTask' = NoRepoTasks
    /\ NoHistory
    /\ mainpc' = "idle"
    /\ linked' = FALSE
    /\ ret' = IF linked
              THEN Result("ClearCache", TRUE, Nil)
              ELSE Result("ClearCache", FALSE, "PathError")
    /\ UNCHANGED <<queryVars, store, remote, argVars, closer>>

\* The process ends (its goroutines with it) and a new one calls New():
\* CreateIfNotExists creates the cache file when the path names none, storm.Open
\* opens the file the path names
New ==
    /\ mainpc \in {"idle", "panic"} \/ Quiescent
    /\ store' = IF linked THEN store ELSE {}
    /\ linked' = TRUE
    /\ mainpc' = "idle"
    /\ op' = ""
    /\ ret' = NoReturn
    /\ wg' = 0
    /\ responses' = <<>>
    /\ firstPageResponse' = NoResponse
    /\ pageTask' = NoPageTasks
    /\ repoTask' = NoRepoTasks
    /\ age' = 0
    /\ archived' = FALSE
    /\ allStars' = {}
    /\ closed' = FALSE
    /\ queueTask' = NoRepoTasks
    /\ removeTask' = NoRepoTasks
    /\ closer' = "none"
    /\ unstarCalls' = NoCalls
    /\ unstarOk' = {}
    /\ deleteCalls' = NoCalls
    /\ deleted' = {}
    /\ query' = NoQuery
    /\ out' = <<>>
    /\ UNCHANGED remote

-----------------------------------------------------------------------------
(* RemoveStar                                                              *)

\* the star RemoveStar goroutine i was given
Target(i) == StarOf(i)

\* wg.Add(1); url.Parse(star.URL) and strings.Split (the URLs of stored stars parse)
RemoveStar_Add(i) ==
    /\ Alive
    /\ removeTask[i] = "spawned"
    /\ removeTask' = [removeTask EXCEPT ![i] = "unstar"]
    /\ wg' = wg + 1
    /\ UNCHANGED <<queryVars, storeVars, mainpc, op, ret, syncVars, argVars, closed, queueTask,
                   closer, histVars>>

\* RemoveStar_Unstar with the local delete issued whatever Unstar returned
RemoveStar_Unstar_DeleteAnyway(i) ==
    /\ Alive
    /\ removeTask[i] = "unstar"
    /\ unstarCalls' = [unstarCalls EXCEPT ![i] = @ + 1]
    /\ \E unstarErr \in BOOLEAN :
          IF unstarErr
          THEN /\ removeTask' = [removeTask EXCEPT ![i] = "failed"]
               /\ store' = DBDelete(store, Target(i))
               /\ deleted' = deleted \cup (URLs(store) \cap {Target(i).URL})
               /\ WgDone
               /\ UNCHANGED <<remote, unstarOk>>
          ELSE /\ removeTask' = [removeTask EXCEPT ![i] = "delete"]
               /\ remote' = remote \ Unstarred(SplitPath(Target(i).URL)[2],
                                               SplitPath(Target(i).URL)[3])
               /\ unstarOk' = unstarOk \cup {Target(i).URL}
               /\ UNCHANGED <<wg, mainpc, closer, store, deleted>>
    /\ UNCHANGED <<queryVars, linked, op, ret, syncVars, argVars, closed, queueTask,
                   deleteCalls>>

\* s.Client.Activity.Unstar(s.Context, splitPath[1], splitPath[2]);
\* on an error: log, return false, unstarErr, deferred wg.Done()
RemoveStar_Unstar(i) ==
    /\ Alive
    /\ removeTask[i] = "unstar"
    /\ unstarCalls' = [unstarCalls EXCEPT ![i] = @ + 1]
    /\ \E unstarErr \in BOOLEAN :
          IF unstarErr
          THEN /\ removeTask' = [removeTask EXCEPT ![i] = "failed"]
               /\ WgDone
               /\ UNCHANGED <<queryVars, remote, unstarOk>>
          ELSE /\ removeTask' = [removeTask EXCEPT ![i] = "delete"]
               /\ remote' = remote \ Unstarred(SplitPath(Target(i).URL)[2],
                                               SplitPath(Target(i).URL)[3])
               /\ unstarOk' = unstarOk \cup {Target(i).URL}
               /\ UNCHANGED <<queryVars, wg, mainpc, closer>>
    /\ UNCHANGED <<queryVars, store, linked, op, ret, syncVars, argVars, closed, queueTask,
                   deleteCalls, deleted>>

\* RemoveStar_Delete starring the repository again when the delete fails
RemoveStar_Delete_Rollback(i) ==
    /\ Alive
    /\ removeTask[i] = "delete"
    /\ deleteCalls' = [deleteCalls EXCEPT ![i] = @ + 1]
    /\ \E deleteErr \in BOOLEAN :
          IF deleteErr \/ Target(i).URL \notin URLs(store)
          THEN /\ removeTask' = [removeTask EXCEPT ![i] = "failed"]
               /\ remote' = remote \cup {i}
               /\ UNCHANGED <<queryVars, store, deleted>>
          ELSE /\ removeTask' = [removeTask EXCEPT ![i] = "done"]
               /\ store' = DBDelete(store, Target(i))
               /\ deleted' = deleted \cup {Target(i).URL}
               /\ remote' = remote
    /\ WgDone
    /\ UNCHANGED <<queryVars, linked, op, ret, syncVars, argVars, closed, queueTask,
                   unstarCalls, unstarOk>>

\* s.DB.DeleteStruct(star); return false, deleteErr or log and return true, nil;
\* deferred wg.Done()
RemoveStar_Delete(i) ==
    /\ Alive
    /\ removeTask[i] = "delete"
    /\ deleteCalls' = [deleteCalls EXCEPT ![i] = @ + 1]
    /\ \E deleteErr \in BOOLEAN :
          IF deleteErr \/ Target(i).URL \notin URLs(store)
          THEN /\ removeTask' = [removeTask EXCEPT ![i] = "failed"]
               /\ UNCHANGED <<queryVars, store, deleted>>
          ELSE /\ removeTask' = [removeTask EXCEPT ![i] = "done"]
               /\ store' = DBDelete(store, Target(i))
               /\ deleted' = deleted \cup {Target(i).URL}
    /\ WgDone
    /\ UNCHANGED <<queryVars, linked, remote, op, ret, syncVars, argVars, closed, queueTask,
                   unstarCalls, unstarOk>>

\* the stars a caller hands to RemoveStar
Stars == {StarOf(i) : i \in RepoIds} \cup {[StarOf(1) EXCEPT !.URL = BadURL]}

\* the index of the repository a star with a well-formed URL mirrors
IdOf(star) == star.URL.path[2]

\* RemoveStar(star, wg) called by the caller itself, with a WaitGroup of its own
RemoveStar ==
    /\ Enter
    /\ \E star \in Stars, unstarErr \in BOOLEAN, deleteErr \in BOOLEAN :
          IF UrlParseErr(star.URL)
          THEN /\ ret' = Result("RemoveStar", FALSE, "parseErr")
               /\ NoHistory
               /\ UNCHANGED <<queryVars, store, remote>>
          ELSE IF unstarErr
          THEN /\ ret' = Result("RemoveStar", FALSE, "unstarErr")
               /\ unstarCalls' = [NoCalls EXCEPT ![IdOf(star)] = 1]
               /\ unstarOk' = {}
               /\ deleteCalls' = NoCalls
               /\ deleted' = {}
               /\ UNCHANGED <<queryVars, store, remote>>
          ELSE /\ remote' = remote \ Unstarred(SplitPath(star.URL)[2], SplitPath(star.URL)[3])
               /\ unstarCalls' = [NoCalls EXCEPT ![IdOf(star)] = 1]
               /\ unstarOk' = {star.URL}
               /\ deleteCalls' = [NoCalls EXCEPT ![IdOf(star)] = 1]
               /\ IF deleteErr \/ star.URL \notin URLs(store)
                  THEN /\ ret' = Result("RemoveStar", FALSE, "deleteErr")
                       /\ deleted' = {}
                       /\ store' = store
                  ELSE /\ store' = DBDelete(store, star)
                       /\ deleted' = {star.URL}
                       /\ ret' = [Result("RemoveStar", TRUE, Nil) EXCEPT
                                    !.count = DBCount(store')]
    /\ op' = ""
    /\ mainpc' = "idle"
    /\ pageTask' = NoPageTasks
    /\ queueTask' = NoRepoTasks
    /\ UNCHANGED <<queryVars, linked, argVars, closer>>

-----------------------------------------------------------------------------
(* Cleanup                                                                 *)

\* s.DB.All(&allStars) fails: return err.  Otherwise the filter loop starts a
\* goroutine per selected star, then the goroutine that closes toDelete
Cleanup ==
    /\ Enter
    /\ NoHistory
    /\ pageTask' = NoPageTasks
    /\ \E a \in Ages, ar \in BOOLEAN, allErr \in BOOLEAN :
          /\ age' = a
          /\ archived' = ar
          /\ IF allErr
             THEN /\ allStars' = {}
                  /\ op' = ""
                  /\ mainpc' = "idle"
                  /\ ret' = Result("Cleanup", FALSE, "StoreError")
                  /\ queueTask' = NoRepoTasks
                  /\ closer' = "none"
             ELSE /\ allStars' = store
                  /\ op' = "Cleanup"
                  /\ mainpc' = "cl_range"
                  /\ ret' = NoReturn
                  /\ queueTask' = [i \in RepoIds |->
                                     IF StarOf(i) \in store /\ Selected(StarOf(i), a, ar)
                                     THEN "spawned" ELSE "none"]
                  /\ closer' = "wait"
    /\ UNCHANGED <<queryVars, storeVars>>

\* wg.Add(1) of the goroutine queueing star i
Queue_Add(i) ==
    /\ Alive
    /\ queueTask[i] = "spawned"
    /\ queueTask' = [queueTask EXCEPT ![i] = "sending"]
    /\ wg' = wg + 1
    /\ UNCHANGED <<queryVars, storeVars, mainpc, op, ret, syncVars, argVars, closed, removeTask,
                   closer, histVars>>

\* Queue_Send with the queueing goroutine sending its star again
Queue_Send_Again(i) ==
    /\ Alive
    /\ queueTask[i] = "sending"
    /\ ~closed
    /\ mainpc = "cl_range"
    /\ queueTask' = queueTask
    /\ removeTask' = [removeTask EXCEPT ![i] = "spawned"]
    /\ UNCHANGED <<queryVars, storeVars, mainpc, op, ret, wg, syncVars, argVars, closed, closer,
                   histVars>>

\* ch <- s meets the receive of "for star := range toDelete", whose body is
\* go s.RemoveStar(star, &wg)
Queue_Send(i) ==
    /\ Alive
    /\ queueTask[i] = "sending"
    /\ ~closed
    /\ mainpc = "cl_range"
    /\ queueTask' = [queueTask EXCEPT ![i] = "sent"]
    /\ removeTask' = [removeTask EXCEPT ![i] = "spawned"]
    /\ UNCHANGED <<queryVars, storeVars, mainpc, op, ret, wg, syncVars, argVars, closed, closer,
                   histVars>>

\* ch <- s on the closed channel: panic "send on closed channel"
Queue_SendClosed(i) ==
    /\ Alive
    /\ queueTask[i] = "sending"
    /\ closed
    /\ Panic("send on closed channel")
    /\ UNCHANGED <<queryVars, storeVars, op, wg, syncVars, argVars, cleanVars, closer, histVars>>

\* deferred wg.Done() of the goroutine queueing star i
Queue_Done(i) ==
    /\ Alive
    /\ queueTask[i] = "sent"
    /\ queueTask' = [queueTask EXCEPT ![i] = "done"]
    /\ WgDone
    /\ UNCHANGED <<queryVars, storeVars, op, ret, syncVars, argVars, closed, removeTask, histVars>>

\* wg.Wait() of the closing goroutine
Closer_Wait ==
    /\ Alive
    /\ closer = "wait"
    /\ closer' = IF wg = 0 THEN "close" ELSE "parked"
    /\ UNCHANGED <<queryVars, storeVars, mainpc, op, ret, wg, syncVars, argVars, cleanVars, histVars>>

\* the released closing goroutine returns from Wait, or panics
Closer_Woken ==
    /\ Alive
    /\ closer = "woken"
    /\ IF wg # 0
       THEN /\ Panic("WaitGroup is reused")
            /\ closer' = closer
       ELSE /\ closer' = "close"
            /\ UNCHANGED <<queryVars, mainpc, ret>>
    /\ UNCHANGED <<queryVars, storeVars, op, wg, syncVars, argVars, cleanVars, histVars>>

\* close(toDelete)
Closer_Close ==
    /\ Alive
    /\ closer = "close"
    /\ closed' = TRUE
    /\ closer' = "done"
    /\ UNCHANGED <<queryVars, storeVars, mainpc, op, ret, wg, syncVars, argVars, queueTask,
                   removeTask, histVars>>

\* the range over the closed channel ends
Cleanup_RangeEnd ==
    /\ mainpc = "cl_range"
    /\ closed
    /\ mainpc' = "cl_wait"
    /\ UNCHANGED <<queryVars, storeVars, op, ret, wg, syncVars, argVars, cleanVars, closer, histVars>>

\* return nil
Cleanup_Return ==
    /\ ret' = Return(op, TRUE, Nil)
    /\ mainpc' = "idle"
    /\ op' = ""

\* wg.Wait() of Cleanup
Cleanup_Wait ==
    /\ mainpc = "cl_wait"
    /\ IF wg = 0
       THEN Cleanup_Return
       ELSE /\ mainpc' = "cl_parked"
            /\ UNCHANGED <<queryVars, op, ret>>
    /\ UNCHANGED <<queryVars, storeVars, wg, syncVars, argVars, cleanVars, closer, histVars>>

\* the released Cleanup returns from Wait, or panics
Cleanup_Woken ==
    /\ mainpc = "cl_woken"
    /\ IF wg # 0
       THEN /\ Panic("WaitGroup is reused")
            /\ op' = op
       ELSE Cleanup_Return
    /\ UNCHANGED <<queryVars, storeVars, wg, syncVars, argVars, cleanVars, closer, histVars>>

-----------------------------------------------------------------------------
(* GetProjects                                                             *)

\* s.DB.Select(q.Eq("Language", language)).Find(&stars): storm's Find reports
\* ErrNotFound when no record matches
DBFind(db, language) ==
    LET found == {s \in db : s.Language = language}
    IN  [stars |-> found, err |-> IF found = {} THEN "ErrNotFound" ELSE Nil]

\* s.DB.All(&stars): every record; an empty bucket is no error
DBAll(db) == [stars |-> db, err |-> Nil]

\* utils.StringInSlice(topic, star.Topics)
StringInSlice(str, slice) == \E k \in 1..Len(slice) : slice[k] = str

\* the stars left by the language and the topic filter
Narrowed(stars, topic) ==
    IF topic # "" THEN {s \in stars : StringInSlice(topic, s.Topics)} ELSE stars

\* the arrangements of a set of stars in a slice
Arrangements(S) ==
    {f \in [1..Cardinality(S) -> S] : \A i, j \in 1..Cardinality(S) : i # j => f[i] # f[j]}

\* a shuffle that draws every position independently
Shuffle_WithRepeats(S) == [1..Cardinality(S) -> S]

\* rand.Shuffle(len(stars), swap): the generator is seeded from the clock, any
\* permutation can come out
Shuffle(S) == Arrangements(S)

\* SortSlice with the comparison reversed
SortSlice_Ascending(S) ==
    {f \in Arrangements(S) :
        \A i, j \in 1..Cardinality(S) : i < j => f[i].Stargazers <= f[j].Stargazers}

\* sort.Slice(stars, func(i, j) { stars[i].Stargazers > stars[j].Stargazers }):
\* not stable, equal elements come out in any order
SortSlice(S) ==
    {f \in Arrangements(S) :
        \A i, j \in 1..Cardinality(S) : i < j => f[i].Stargazers >= f[j].Stargazers}

\* if len(stars) > count { return stars[0:count] }; return stars
Truncate(stars, count) == IF Len(stars) > count THEN SubSeq(stars, 1, count) ELSE stars

NoMatch == "No stars matching criteria found"

\* what GetProjects can return: the stars and the error
GetProjectsResults(db, count, language, topic, random) ==
    LET read == IF language # "" THEN DBFind(db, language) ELSE DBAll(db)
        stars == Narrowed(read.stars, topic)
    IN  IF read.err # Nil
        THEN {[stars |-> <<>>, err |-> read.err]}
        ELSE IF stars = {}
        THEN {[stars |-> <<>>, err |-> NoMatch]}
        ELSE {[stars |-> Truncate(f, count), err |-> Nil] :
                f \in IF random THEN Shuffle(stars) ELSE SortSlice(stars)}

\* the arguments GetProjects is called with
Languages == {"", "go"}
TopicArgs == {"", "a"}

\* GetProjects(count, language, topic, random), entered with the arguments in query
GetProjects ==
    /\ mainpc = "GetProjects"
    /\ \E ioErr \in BOOLEAN :
          IF ioErr
          THEN /\ out' = <<>>
               /\ ret' = Result("GetProjects", FALSE, "StoreError")
          ELSE \E r \in GetProjectsResults(store, query.count, query.language, query.topic,
                                           query.random) :
                  /\ out' = r.stars
                  /\ ret' = Result("GetProjects", r.err = Nil, r.err)
    /\ op' = ""
    /\ mainpc' = "idle"
    /\ UNCHANGED <<storeVars, wg, syncVars, argVars, cleanVars, closer, histVars, query>>

-----------------------------------------------------------------------------
(* GetTopics                                                               *)

\* topicCounts[topic]++ on a map[string]int: a missing key counts from zero
Increment(counts, topic) ==
    [t \in DOMAIN counts \cup {topic} |->
        IF t = topic
        THEN (IF topic \in DOMAIN counts THEN counts[topic] ELSE 0) + 1
        ELSE counts[t]]

RECURSIVE CountTopics(_, _)
\* for _, topic := range star.Topics { topicCounts[topic]++ }
CountTopics(topics, counts) ==
    IF topics = <<>>
    THEN counts
    ELSE CountTopics(Tail(topics), Increment(counts, Head(topics)))

RECURSIVE TopicCounts(_, _)
\* for _, star := range stars { ... }
TopicCounts(stars, counts) ==
    IF stars = {}
    THEN counts
    ELSE LET star == CHOOSE s \in stars : TRUE
         IN  TopicCounts(stars \ {star}, CountTopics(star.Topics, counts))

\* for topic, count := range topicCounts { results = append(results, KV{topic, count}) }
KVs(counts) == {[Key |-> t, Value |-> counts[t]] : t \in DOMAIN counts}

\* SortKV with the comparison reversed
SortKV_Ascending(S) ==
    {f \in Arrangements(S) :
        \A i, j \in 1..Cardinality(S) : i < j => f[i].Value <= f[j].Value}

\* sort.Slice(results, func(i, j) { results[i].Value > results[j].Value }) on the
\* pairs appended in the iteration order of the map: equal counts in any order
SortKV(S) ==
    {f \in Arrangements(S) :
        \A i, j \in 1..Cardinality(S) : i < j => f[i].Value >= f[j].Value}

\* what GetTopics can return
GetTopicsResults(db) == SortKV(KVs(TopicCounts(DBAll(db).stars, <<>>)))

\* GetTopics(): s.DB.All(&stars), whose error the source discards (All is taken
\* not to fail), the counting loops, the sort
GetTopics ==
    /\ mainpc = "GetTopics"
    /\ out' \in GetTopicsResults(store)
    /\ ret' = Result("GetTopics", TRUE, Nil)
    /\ op' = ""
    /\ mainpc' = "idle"
    /\ UNCHANGED <<storeVars, wg, syncVars, argVars, cleanVars, closer, histVars, query>>

-----------------------------------------------------------------------------
(* Specifications                                                          *)

Next ==
    \/ SaveAllStars
    \/ SaveAllStars_Recv
    \/ SaveAllStars_Dispatch
    \/ SaveAllStars_Wait
    \/ SaveAllStars_Woken
    \/ \E p \in PageIds : SaveStarredPage_Add(p)
    \/ \E p \in PageIds : SaveStarredPage_List(p)
    \/ \E p \in PageIds : SaveStarredPage_Respond(p)
    \/ \E p \in PageIds : SaveStarredPage_Spawn(p)
    \/ \E p \in PageIds : SaveStarredPage_Done(p)
    \/ \E i \in RepoIds : SaveStarredRepository_Add(i)
    \/ \E i \in RepoIds : SaveStarredRepository_Save(i)
    \/ SaveIfEmpty
    \/ ClearCache
    \/ New

\* the synchronisation of the cache: New, SaveAllStars, SaveIfEmpty, ClearCache
Spec == Init /\ [][Next]_vars

\* the record an earlier synchronisation saved for repository i, when the
\* repository had one stargazer more
StaleStar(i) == [StarOf(i) EXCEPT !.Stargazers = @ + 1]

\* a StarManager opened on the cache an earlier synchronisation of the same
\* account has left, or on no cache
InitResync ==
    /\ remote \in {1..n : n \in 0..MaxRepos}
    /\ store \in {{}, {StaleStar(i) : i \in remote}}
    /\ linked = TRUE
    /\ Idle

\* the synchronisation run again over a cache that holds records
SpecResync == InitResync /\ [][Next]_vars

\* the steps of the goroutines of a synchronisation
SaveAllStars_Step ==
    SaveAllStars_Recv \/ SaveAllStars_Dispatch \/ SaveAllStars_Wait \/ SaveAllStars_Woken

SaveStarredPage_Step(p) ==
    \/ SaveStarredPage_Add(p)
    \/ SaveStarredPage_List(p)
    \/ SaveStarredPage_Respond(p)
    \/ SaveStarredPage_Spawn(p)
    \/ SaveStarredPage_Done(p)

SaveStarredRepository_Step(i) ==
    SaveStarredRepository_Add(i) \/ SaveStarredRepository_Save(i)

\* the Go scheduler: a goroutine that can run does run; the calls of the
\* caller's program (a further method call, the end of the process) are under
\* no such obligation
Fairness ==
    /\ WF_vars(SaveAllStars_Step)
    /\ \A p \in PageIds : WF_vars(SaveStarredPage_Step(p))
    /\ \A i \in RepoIds : WF_vars(SaveStarredRepository_Step(i))

\* the synchronisation under fair scheduling
SpecFair == Init /\ [][Next]_vars /\ Fairness

\* a StarManager whose cache holds some of the account's stars
InitCleanup ==
    /\ store \in {{StarOf(i) : i \in S} : S \in SUBSET RepoIds}
    /\ linked = TRUE
    /\ remote = RepoIds
    /\ Idle

NextCleanup ==
    \/ Cleanup
    \/ \E i \in RepoIds : Queue_Add(i)
    \/ \E i \in RepoIds : Queue_Send(i)
    \/ \E i \in RepoIds : Queue_SendClosed(i)
    \/ \E i \in RepoIds : Queue_Done(i)
    \/ Closer_Wait
    \/ Closer_Woken
    \/ Closer_Close
    \/ Cleanup_RangeEnd
    \/ Cleanup_Wait
    \/ Cleanup_Woken
    \/ \E i \in RepoIds : RemoveStar_Add(i)
    \/ \E i \in RepoIds : RemoveStar_Unstar(i)
    \/ \E i \in RepoIds : RemoveStar_Delete(i)
    \/ RemoveStar
    \/ New

\* the removal of stars: Cleanup and RemoveStar
SpecCleanup == InitCleanup /\ [][NextCleanup]_vars

\* the records a cache of up to MaxStars stars can hold: languages are stored
\* lower-cased, URLs are unique
QueryStar(i, l, g, t) ==
    [PushedAt |-> Now - 1, URL |-> HTMLURL(i), Language |-> l, Stargazers |-> g,
     Topics |-> t, Archived |-> FALSE]

QueryStores ==
    UNION {{{QueryStar(i, f[i][1], f[i][2], f[i][3]) : i \in S} :
              f \in [S -> {"go", "rust"} \X {1, 2} \X {<<>>, <<"a">>}]} :
           S \in SUBSET (1..MaxStars)}

\* a StarManager as GetProjects is called on it
InitQuery ==
    /\ store \in QueryStores
    /\ linked = TRUE
    /\ remote = RepoIds
    /\ mainpc = "GetProjects"
    /\ op = "GetProjects"
    /\ query \in [count : 0..MaxCount, language : Languages, topic : TopicArgs,
                  random : BOOLEAN]
    /\ ret = NoReturn
    /\ wg = 0
    /\ responses = <<>>
    /\ firstPageResponse = NoResponse
    /\ pageTask = NoPageTasks
    /\ repoTask = NoRepoTasks
    /\ age = 0
    /\ archived = FALSE
    /\ allStars = {}
    /\ closed = FALSE
    /\ queueTask = NoRepoTasks
    /\ removeTask = NoRepoTasks
    /\ closer = "none"
    /\ unstarCalls = NoCalls
    /\ unstarOk = {}
    /\ deleteCalls = NoCalls
    /\ deleted = {}
    /\ out = <<>>

NextQuery == GetProjects

\* the queries over the cache: GetProjects
SpecQuery == InitQuery /\ [][NextQuery]_vars

\* the topic lists of the records GetTopics is run on (the topics of a
\* repository are distinct)
TopicLists == {<<>>, <<"a">>, <<"a", "b">>, <<"c">>, <<"b", "c">>}

TopicStores ==
    UNION {{{QueryStar(i, "go", 1, f[i]) : i \in S} : f \in [S -> TopicLists]} :
           S \in SUBSET (1..MaxStars)}

\* a StarManager as GetTopics is called on it
InitTopics ==
    /\ store \in TopicStores
    /\ linked = TRUE
    /\ remote = RepoIds
    /\ mainpc = "GetTopics"
    /\ op = "GetTopics"
    /\ query = NoQuery
    /\ ret = NoReturn
    /\ wg = 0
    /\ responses = <<>>
    /\ firstPageResponse = NoResponse
    /\ pageTask = NoPageTasks
    /\ repoTask = NoRepoTasks
    /\ age = 0
    /\ archived = FALSE
    /\ allStars = {}
    /\ closed = FALSE
    /\ queueTask = NoRepoTasks
    /\ removeTask = NoRepoTasks
    /\ closer = "none"
    /\ unstarCalls = NoCalls
    /\ unstarOk = {}
    /\ deleteCalls = NoCalls
    /\ deleted = {}
    /\ out = <<>>

NextTopics == GetTopics

\* the topic frequencies of the cache: GetTopics
SpecTopics == InitTopics /\ [][NextTopics]_vars

-----------------------------------------------------------------------------
(* Properties                                                              *)

\* the stars the language and topic arguments of a query select
Filtered(db, language, topic) ==
    {s \in db : /\ language = "" \/ s.Language = language
                /\ topic = "" \/ \E k \in 1..Len(s.Topics) : s.Topics[k] = topic}

Range(f) == {f[k] : k \in 1..Len(f)}

\* the method whose goroutines are running, or have run last
Running(o) == op = o \/ ret.op = o

\* C1: when Unstar fails, RemoveStar reports the failure and leaves the store as
\* it was; no record leaves the store unless the Unstar of that record succeeded
C1_NoDeleteWithoutUnstar ==
    /\ deleted \subseteq unstarOk
    /\ \A i \in RepoIds :
          removeTask[i] = "failed" /\ deleteCalls[i] = 0 => Target(i).URL \notin deleted
    /\ Running("Cleanup") =>
          \A s \in allStars : s \notin store => s.URL \in unstarOk
    /\ ret.op = "RemoveStar" /\ ret.err = "unstarErr" =>
          ~ret.ok /\ deleted = {} /\ DBCount(store) = ret.count

\* a removal of Cleanup whose Unstar failed and whose record is still stored,
\* next to a removal that went through
C1_Witness ==
    \E i, j \in RepoIds :
        /\ removeTask[i] = "failed" /\ unstarCalls[i] = 1 /\ deleteCalls[i] = 0
        /\ StarOf(i) \in store
        /\ removeTask[j] = "done" /\ StarOf(j).URL \in deleted /\ StarOf(j) \notin store

\* C2: when SaveAllStars returns, no page fetch and no record save is pending,
\* and with no failed save the store holds every remote repository
C2_SyncCompleteAtReturn ==
    ret.op = "SaveAllStars" /\ ret.ok =>
        /\ ret.pages = {} /\ ret.repos = {}
        /\ (\A i \in RepoIds : repoTask[i] # "failed") => ret.count = Cardinality(remote)

\* C3: when Cleanup returns, no selected star waits to be sent and no RemoveStar
\* is pending
C3_CleanupCompleteAtReturn ==
    ret.op = "Cleanup" /\ ret.ok => ret.queues = {} /\ ret.removes = {}

\* C4: a SaveStarredPage whose ListStarred failed hands the error to its caller
\* and returns: it is never left blocked on its error channel
C4_PageErrorDelivered ==
    \A p \in PageIds : pageTask[p] # "blocked"

\* C5: whenever the filters leave no record, GetProjects fails with the error
\* "No stars matching criteria found", and it never succeeds with no record
C5_NoMatchError ==
    ret.op = "GetProjects" /\ ret.err # "StoreError"
    /\ Filtered(store, query.language, query.topic) = {}
        => ret.err = NoMatch

C7_RecentUnarchivedKept ==
    Running("Cleanup") =>
        \A i \in RepoIds :
            StarOf(i).PushedAt >= Now - age /\ ~StarOf(i).Archived => queueTask[i] = "none"

C9_RankedSelection ==
    ret.op = "GetProjects" /\ ~query.random /\ ret.err # "StoreError" =>
        LET F == Filtered(store, query.language, query.topic)
        IN  /\ F # {} => ret.ok
            /\ Len(out) = Min(query.count, Cardinality(F))
            /\ Range(out) \subseteq F
            /\ \A k, l \in 1..Len(out) :
                  /\ k # l => out[k].URL # out[l].URL
                  /\ k < l => out[k].Stargazers >= out[l].Stargazers
            /\ \A s \in F \ Range(out) : \A k \in 1..Len(out) : s.Stargazers <= out[k].Stargazers

\* a ranked result cut to count: of two selected stars the one with more
\* stargazers is returned, and the store holds a star the filters exclude
C9_Witness ==
    /\ ret.op = "GetProjects" /\ ret.ok /\ ~query.random
    /\ query.language = "go" /\ query.topic = "a" /\ query.count = 1
    /\ Cardinality(Filtered(store, query.language, query.topic)) = 2
    /\ Cardinality(store) = 3
    /\ Len(out) = 1
    /\ \E s \in Filtered(store, query.language, query.topic) :
          s.Stargazers < out[1].Stargazers

\* the arrangements of count stars of F
Samples(F, count) ==
    {f \in [1..count -> F] : \A k, l \in 1..count : k # l => f[k] # f[l]}

Occurrences(db, topic) ==
    Cardinality(UNION {{<<s.URL, k>> : k \in {j \in 1..Len(s.Topics) : s.Topics[j] = topic}} :
                       s \in db})

C12_FailuresReported ==
    ret.op \in {"SaveAllStars", "Cleanup"} /\ ret.failures > 0 => ~ret.ok \/ ret.err # Nil

\* C13: the store holds one record per URL, whatever the number of times and the
\* order in which the repositories are saved; a finished save of a URL the
\* store already held has replaced the record, and once a synchronisation has
\* returned with every task finished and none failed the store holds exactly
\* the records of the remote repositories
C13_OneRecordPerURL ==
    /\ \A s, t \in store : s.URL = t.URL => s = t
    /\ \A i \in RepoIds : repoTask[i] = "done" => StarOf(i) \in store
    /\ ret.op \in {"SaveAllStars", "SaveIfEmpty"} /\ mainpc = "idle" /\ Failures = 0
       /\ pageTask[1] = "done" /\ PendingPages = {} /\ PendingRepos = {}
          => store = {StarOf(i) : i \in remote}

\* a synchronisation over a cache that held a record of every repository: one
\* record re-saved and replaced, another not yet re-saved, no record added
C13_Witness ==
    /\ Cardinality(remote) >= 2
    /\ Cardinality(store) = Cardinality(remote)
    /\ \E i, j \in remote :
          /\ StaleStar(i) \in store /\ repoTask[i] # "done"
          /\ repoTask[j] = "done" /\ StarOf(j) \in store /\ StaleStar(j) \notin store

\* C14: after a ClearCache that succeeded the store seen through the manager
\* holds no record (so that the SaveIfEmpty that follows, which synchronises
\* exactly when the count is zero, synchronises)
C14_ClearedStoreEmpty ==
    ret.op = "ClearCache" /\ ret.ok => DBCount(store) = 0

\* C15: a page after the first is started only once the response of page 1 has
\* been received, and the pages started are exactly 2..LastPage of that
\* response
C15_FirstPageBeforeRest ==
    /\ firstPageResponse # NoResponse => pageTask[1] \in {"responded", "spawnedAll", "done"}
    /\ \A p \in PageIds :
          p >= 2 /\ pageTask[p] # "none" =>
             /\ firstPageResponse # NoResponse
             /\ p <= firstPageResponse.LastPage
             /\ mainpc \notin {"sas_recv", "sas_dispatch"}
    /\ firstPageResponse # NoResponse /\ mainpc \notin {"sas_recv", "sas_dispatch"} =>
          \A p \in PageIds :
              2 <= p /\ p <= firstPageResponse.LastPage => pageTask[p] # "none"

\* page 2 of two has been fetched after the response of page 1 said LastPage = 2
C15_Witness ==
    /\ op = "SaveAllStars"
    /\ firstPageResponse # NoResponse /\ firstPageResponse.LastPage = 2
    /\ pageTask[2] \in {"listed", "responded", "spawnedAll", "done"}
    /\ pageTask[1] = "responded"

\* C16: a save that fails leaves the saves of the other repositories of the
\* page to be attempted (each has its goroutine, and a goroutine that has not
\* saved yet can still do so), and SaveAllStars returns true, nil whether or
\* not a save has failed
C16_SaveFailureNotEscalated ==
    /\ \A p \in PageIds :
          pageTask[p] \in {"spawnedAll", "done"} =>
              \A i \in PageItems(p) : repoTask[i] # "none"
    /\ \A i \in RepoIds :
          Alive /\ repoTask[i] = "running" => ENABLED SaveStarredRepository_Save(i)
    /\ ret.op = "SaveAllStars" /\ Alive => ret.ok /\ ret.err = Nil

\* SaveAllStars has returned true, nil after the save of one repository of
\* page 1 failed and the save of the other went through
C16_Witness ==
    /\ ret.op = "SaveAllStars" /\ ret.ok /\ ret.err = Nil /\ ret.failures = 1
    /\ \E i, j \in PageItems(1) :
          /\ repoTask[i] = "failed" /\ StarOf(i) \notin store
          /\ repoTask[j] = "done" /\ StarOf(j) \in store

\* C17: RemoveStar issues the local delete only after Unstar has succeeded for
\* the same record; when the delete fails it returns false with the delete
\* error, the store is left as it was and the repository stays unstarred
C17_DeleteAfterUnstarNoRollback ==
    /\ [](\A i \in RepoIds :
             deleteCalls[i] > 0 \/ removeTask[i] = "delete" =>
                 HTMLURL(i) \in unstarOk /\ unstarCalls[i] > 0 /\ i \notin remote)
    /\ [][/\ RemoveStar /\ ret'.err = "deleteErr" =>
                /\ ~ret'.ok
                /\ store' = store /\ deleted' = {}
                /\ \E i \in RepoIds :
                      /\ unstarOk' = {HTMLURL(i)} /\ deleteCalls'[i] = 1
                      /\ i \notin remote'
          /\ \A i \in RepoIds :
                removeTask[i] = "delete" /\ removeTask'[i] = "failed" =>
                    /\ store' = store /\ deleted' = deleted
                    /\ remote' = remote /\ i \notin remote']_vars

\* RemoveStar has returned the delete error for a record that is still stored
\* and whose repository is no longer starred
C17_Witness ==
    /\ ret.op = "RemoveStar" /\ ~ret.ok /\ ret.err = "deleteErr"
    /\ \E i \in RepoIds :
          /\ unstarOk = {HTMLURL(i)} /\ deleteCalls[i] = 1
          /\ StarOf(i) \in store /\ i \notin remote

\* C18: under fair scheduling a SaveAllStars that has been called returns,
\* whatever ListStarred answers
C18_SyncReturns ==
    (op \in {"SaveAllStars", "SaveIfEmpty"}) ~> (op = "" /\ mainpc = "idle")

\* C19: toDelete is closed only after every queueing goroutine has delivered
\* its star: no goroutine is left to send on the closed channel and the send
\* on a closed channel never panics
C19_NoSendAfterClose ==
    /\ closed => \A i \in RepoIds : queueTask[i] \notin {"spawned", "sending"}
    /\ ret.err # "send on closed channel"

\* C20: in a run of Cleanup no record is handed to RemoveStar twice: for each
\* record Unstar is called at most once and the local delete is issued at most
\* once, and only the records Cleanup selected are handed over
C20_RemovedAtMostOnce ==
    Running("Cleanup") =>
        /\ \A i \in RepoIds : unstarCalls[i] <= 1 /\ deleteCalls[i] <= 1
        /\ \A i \in RepoIds : removeTask[i] # "none" => queueTask[i] \in {"sent", "done"}
        /\ Cardinality({s.URL : s \in allStars}) = Cardinality(allStars)

\* Cleanup has handed two records to RemoveStar, each unstarred and deleted once
C20_Witness ==
    /\ Running("Cleanup")
    /\ \E i, j \in RepoIds :
          /\ i # j
          /\ unstarCalls[i] = 1 /\ deleteCalls[i] = 1 /\ removeTask[i] = "done"
          /\ unstarCalls[j] = 1 /\ deleteCalls[j] = 1 /\ removeTask[j] = "done"


====
